---- MODULE Spec2Model ----
(***************************************************************************)
(* Model of the telegram transcription bot: the JSONL transcript log       *)
(* (app/storage/transcripts.py), the webhook authentication                *)
(* (app/services/auth.py) and the webhook handler (app/routes/telegram.py).*)
(*                                                                         *)
(* Text is modelled as a sequence of characters; a character is a TLA+     *)
(* string.  A file is a sequence of characters, one character per byte.    *)
(***************************************************************************)
EXTENDS Integers, Sequences, FiniteSets, TLC

(***************************************************************************)
(* Bounds of the model                                                     *)
(***************************************************************************)
NumProcs == 3      \* concurrent callers of the log
MaxCalls == 3      \* calls started in one behaviour
MaxClock == 3      \* largest reading of the wall clock
MaxRequests == 2   \* webhook requests received in one behaviour
MaxFairCalls == 2  \* calls started in one behaviour under fair scheduling

(***************************************************************************)
(* Characters                                                              *)
(***************************************************************************)
NL == "\n"
QUOTE == "\""
BSL == "\\"
SPACE == " "
LBRACE == "{"
RBRACE == "}"
ITEM_SEP == ", "
KEY_SEP == ": "
NULL == "null"
Digits == <<"0", "1", "2", "3", "4", "5", "6", "7", "8", "9">>
DigitSet == {Digits[i] : i \in 1..10}
Whitespace == {NL, SPACE}

DigitValue(c) == (CHOOSE i \in 1..10 : Digits[i] = c) - 1

(***************************************************************************)
(* Python values as json sees them: int, str, None, dict                   *)
(***************************************************************************)
IntV(n) == [t |-> "int", n |-> n, s |-> <<>>]
StrV(s) == [t |-> "str", n |-> 0, s |-> s]
NoneV == [t |-> "none", n |-> 0, s |-> <<>>]

RECURSIVE Flatten(_)
Flatten(ss) == IF ss = <<>> THEN <<>> ELSE Head(ss) \o Flatten(Tail(ss))

\* str(int) in base 10, n >= 0
RECURSIVE IntToChars(_)
IntToChars(n) ==
    IF n < 10 THEN <<Digits[n + 1]>>
    ELSE IntToChars(n \div 10) \o <<Digits[(n % 10) + 1]>>

\* json.dumps of a str with ensure_ascii=False: quotes, and escapes for
\* the quote, the backslash and the newline
EscapeCharNoNewline(c) ==
    IF c = QUOTE THEN <<BSL, QUOTE>>
    ELSE IF c = BSL THEN <<BSL, BSL>>
    ELSE <<c>>

EscapeChar(c) ==
    IF c = QUOTE THEN <<BSL, QUOTE>>
    ELSE IF c = BSL THEN <<BSL, BSL>>
    ELSE IF c = NL THEN <<BSL, "n">>
    ELSE <<c>>

EncodeString(s) ==
    <<QUOTE>> \o Flatten([i \in 1..Len(s) |-> EscapeChar(s[i])]) \o <<QUOTE>>

EncodeValue(v) ==
    IF v.t = "int" THEN IntToChars(v.n)
    ELSE IF v.t = "str" THEN EncodeString(v.s)
    ELSE <<NULL>>

EncodePair(p) == EncodeString(<<p.k>>) \o <<KEY_SEP>> \o EncodeValue(p.v)

RECURSIVE EncodePairs(_)
EncodePairs(ps) ==
    IF ps = <<>> THEN <<>>
    ELSE IF Len(ps) = 1 THEN EncodePair(ps[1])
    ELSE EncodePair(ps[1]) \o <<ITEM_SEP>> \o EncodePairs(Tail(ps))

\* json.dumps(dict, ensure_ascii=False); a dict is a sequence of pairs
Dumps(d) == <<LBRACE>> \o EncodePairs(d) \o <<RBRACE>>

(***************************************************************************)
(* json.loads                                                              *)
(***************************************************************************)
Fail == [ok |-> FALSE, v |-> NoneV, next |-> 0]

RECURSIVE ParseStringBody(_, _, _)
ParseStringBody(s, i, acc) ==
    IF i > Len(s) THEN Fail
    ELSE IF s[i] = QUOTE THEN [ok |-> TRUE, v |-> StrV(acc), next |-> i + 1]
    ELSE IF s[i] = NL THEN Fail
    ELSE IF s[i] = BSL THEN
        IF i + 1 > Len(s) THEN Fail
        ELSE IF s[i + 1] = "n" THEN ParseStringBody(s, i + 2, Append(acc, NL))
        ELSE IF s[i + 1] \in {QUOTE, BSL}
             THEN ParseStringBody(s, i + 2, Append(acc, s[i + 1]))
        ELSE Fail
    ELSE ParseStringBody(s, i + 1, Append(acc, s[i]))

RECURSIVE ParseDigits(_, _, _)
ParseDigits(s, i, acc) ==
    IF i <= Len(s) /\ s[i] \in DigitSet
    THEN ParseDigits(s, i + 1, acc * 10 + DigitValue(s[i]))
    ELSE [ok |-> TRUE, v |-> IntV(acc), next |-> i]

\* a scalar JSON value starting at s[i]
ParseScalar(s, i) ==
    IF i > Len(s) THEN Fail
    ELSE IF s[i] = QUOTE THEN ParseStringBody(s, i + 1, <<>>)
    ELSE IF s[i] = NULL THEN [ok |-> TRUE, v |-> NoneV, next |-> i + 1]
    ELSE IF s[i] \in DigitSet THEN
        \* JSON has no leading zeros
        IF s[i] = "0" /\ i + 1 <= Len(s) /\ s[i + 1] \in DigitSet THEN Fail
        ELSE ParseDigits(s, i, 0)
    ELSE Fail

\* the one element of a singleton; { e(x) : x \in {v} } evaluates v once
\* and binds x to its value
Only(S) == CHOOSE x \in S : TRUE

NoPairs == [ok |-> FALSE, d |-> <<>>, next |-> 0]

\* the pairs of an object, s[i] being the first character of a key
RECURSIVE ParsePairs(_, _, _)
ParsePairs(s, i, acc) ==
    IF i > Len(s) \/ s[i] # QUOTE THEN NoPairs
    ELSE Only({
        IF ~key.ok \/ Len(key.v.s) # 1 \/ key.next > Len(s)
           \/ s[key.next] # KEY_SEP
        THEN NoPairs
        ELSE Only({
            IF ~val.ok \/ val.next > Len(s)
            THEN NoPairs
            ELSE IF s[val.next] = RBRACE
            THEN [ok |-> TRUE,
                  d |-> Append(acc, [k |-> key.v.s[1], v |-> val.v]),
                  next |-> val.next + 1]
            ELSE IF s[val.next] = ITEM_SEP
            THEN ParsePairs(s, val.next + 1,
                            Append(acc, [k |-> key.v.s[1], v |-> val.v]))
            ELSE NoPairs
            : val \in {ParseScalar(s, key.next + 1)} })
        : key \in {ParseStringBody(s, i + 1, <<>>)} })

\* json.loads(line): ok = FALSE stands for json.JSONDecodeError; otherwise
\* the value is a dict (isdict, d) or a scalar (v)
Loads(s) ==
    LET bad == [ok |-> FALSE, isdict |-> FALSE, d |-> <<>>, v |-> NoneV] IN
    IF s = <<>> THEN bad
    ELSE IF s[1] = LBRACE THEN
        IF Len(s) >= 2 /\ s[2] = RBRACE
        THEN IF Len(s) = 2
             THEN [ok |-> TRUE, isdict |-> TRUE, d |-> <<>>, v |-> NoneV]
             ELSE bad
        ELSE LET r == ParsePairs(s, 2, <<>>) IN
            IF r.ok /\ r.next = Len(s) + 1
            THEN [ok |-> TRUE, isdict |-> TRUE, d |-> r.d, v |-> NoneV]
            ELSE bad
    ELSE LET r == ParseScalar(s, 1) IN
        IF r.ok /\ r.next = Len(s) + 1
        THEN [ok |-> TRUE, isdict |-> FALSE, d |-> <<>>, v |-> r.v]
        ELSE bad

\* dict.get(key): the value of the last pair with that key, None if absent
DictGet(d, key) ==
    LET idx == {i \in 1..Len(d) : d[i].k = key} IN
    IF idx = {} THEN NoneV
    ELSE d[CHOOSE i \in idx : \A j \in idx : j <= i].v

\* str.strip()
RECURSIVE LStrip(_)
LStrip(s) ==
    IF s # <<>> /\ Head(s) \in Whitespace THEN LStrip(Tail(s)) ELSE s

RECURSIVE RStrip(_)
RStrip(s) ==
    IF s # <<>> /\ s[Len(s)] \in Whitespace
    THEN RStrip(SubSeq(s, 1, Len(s) - 1)) ELSE s

Strip(s) == RStrip(LStrip(s))

\* the line starting at data[pos]: up to and including the next newline,
\* or up to the end of the data (text-mode iteration over a file)
RECURSIVE LineEnd(_, _)
LineEnd(data, pos) ==
    IF pos >= Len(data) \/ data[pos] = NL THEN pos ELSE LineEnd(data, pos + 1)

ReadLine(data, pos) == SubSeq(data, pos, LineEnd(data, pos))

Min(a, b) == IF a < b THEN a ELSE b

(***************************************************************************)
(* The file system and the inputs                                          *)
(***************************************************************************)
LogPath == "transcripts.jsonl"
BackupPath == "backups/transcripts.bak"
Paths == {LogPath, BackupPath}

BufferSize == 32   \* characters a file object buffers before it writes through

Procs == 1..NumProcs

UserIds == {7, 42}

SaveInputs ==
    { [user_id |-> 42, message_id |-> 1, file_id |-> <<"f", "1">>,
       transcription |-> <<"a">>, file_type |-> "voice", filename |-> NoneV],
      [user_id |-> 7, message_id |-> 10, file_id |-> <<"f", "2">>,
       transcription |-> <<"a", NL, QUOTE, BSL>>, file_type |-> "audio",
       filename |-> StrV(<<"song.mp3">>)] }

UserFilters == {NoneV, IntV(42)}
Limits == {NoneV, IntV(0), IntV(1)}

\* datetime.utcnow().isoformat() + "Z" for the clock reading now
Timestamp(now) == IntToChars(now) \o <<"Z">>

\* the dict save_transcription builds
TranscriptRecord(now, in) ==
    << [k |-> "timestamp", v |-> StrV(Timestamp(now))],
       [k |-> "user_id", v |-> IntV(in.user_id)],
       [k |-> "message_id", v |-> IntV(in.message_id)],
       [k |-> "file_id", v |-> StrV(in.file_id)],
       [k |-> "file_type", v |-> StrV(<<in.file_type>>)],
       [k |-> "filename", v |-> in.filename],
       [k |-> "transcription", v |-> StrV(in.transcription)],
       [k |-> "character_count", v |-> IntV(Len(in.transcription))] >>

(***************************************************************************)
(* Webhook updates and their raw bodies                                    *)
(***************************************************************************)
AllowedUserIds == UserIds     \* settings.allowed_user_ids_list
Outsider == 13                \* a user id that is not on the list
SharedSecret == <<115, 51>>   \* settings.shared_secret, as bytes

\* what json.loads(raw_data) yields: whether the body is JSON at all,
\* whether it has a message, the id of its sender (0: none), and what the
\* message has under "voice" and "audio" ("absent", "nofile": present
\* without file_id, "file": present with a file_id)
Update(json, message, user_id, voice, audio) ==
    [json |-> json, message |-> message, user_id |-> user_id,
     voice |-> voice, audio |-> audio]

MessageUpdates ==
    {Update(TRUE, TRUE, 42, v, a) :
        v \in {"absent", "file"}, a \in {"absent", "file"}}
    \cup {Update(TRUE, TRUE, 42, "nofile", "file"),
          Update(TRUE, TRUE, Outsider, "file", "absent")}

Updates ==
    MessageUpdates
    \cup {Update(FALSE, FALSE, 0, "absent", "absent"),
          Update(TRUE, FALSE, 0, "absent", "absent"),
          Update(TRUE, TRUE, 0, "file", "absent")}

AttachmentCode(a) == IF a = "absent" THEN 0 ELSE IF a = "nofile" THEN 1 ELSE 2

\* the bytes of the request body the update was parsed from
RawBody(u) ==
    <<(IF u.json THEN 123 ELSE 60), (IF u.message THEN 109 ELSE 0),
      u.user_id, AttachmentCode(u.voice), AttachmentCode(u.audio)>>

(***************************************************************************)
(* AuthService                                                             *)
(***************************************************************************)
HexChars == <<"0", "1", "2", "3", "4", "5", "6", "7", "8", "9",
              "a", "b", "c", "d", "e", "f">>
NonAscii == "é"
NoToken == <<"None">>         \* the header is absent: token is None

\* hmac.new(key, msg, sha256): a keyed digest of one byte, which stands for
\* the 32 bytes of SHA-256
RECURSIVE Mix(_, _)
Mix(h, bytes) ==
    IF bytes = <<>> THEN h
    ELSE Mix((h * 37 + Head(bytes) + 11) % 256, Tail(bytes))

Hmac(key, msg) == Mix(Mix(Mix(0, key), msg), key)

\* .hexdigest()
HexDigest(h) == <<HexChars[(h \div 16) + 1], HexChars[(h % 16) + 1]>>

\* hmac.compare_digest(a, b) on str: TypeError unless both are ASCII str
CompareDigest(a, b) ==
    IF b = NoToken \/ \E i \in 1..Len(b) : b[i] = NonAscii
    THEN [raised |-> TRUE, value |-> FALSE]
    ELSE [raised |-> FALSE, value |-> (a = b)]

VerifyTelegramWebhookNoExcept(token, update_data) ==
    CompareDigest(HexDigest(Hmac(SharedSecret, update_data)), token)

\* verify_telegram_webhook: the try block, and `except Exception: return
\* False` around it
VerifyTelegramWebhook(token, update_data) ==
    LET expected_signature == HexDigest(Hmac(SharedSecret, update_data))
        try == CompareDigest(expected_signature, token)
    IN IF try.raised THEN [raised |-> FALSE, value |-> FALSE] ELSE try

IsUserAuthorizedAnyone(user_id) == TRUE

\* is_user_authorized
IsUserAuthorized(user_id) == user_id \in AllowedUserIds

\* `not token`
Falsy(token) == token = NoToken \/ token = <<>>

AuthenticateRequestUserFirst(token, update_data, user_id) ==
    IF ~IsUserAuthorized(user_id)
    THEN [ok |-> FALSE, reason |-> "User is not authorized to use this bot",
          verified |-> FALSE, looked_up |-> TRUE]
    ELSE IF Falsy(token)
    THEN [ok |-> FALSE, reason |-> "Missing webhook secret token",
          verified |-> FALSE, looked_up |-> TRUE]
    ELSE IF ~VerifyTelegramWebhook(token, update_data).value
    THEN [ok |-> FALSE, reason |-> "Invalid webhook signature",
          verified |-> TRUE, looked_up |-> TRUE]
    ELSE [ok |-> TRUE, reason |-> "", verified |-> TRUE, looked_up |-> TRUE]

\* authenticate_request: how it ends (reason "" is the return of True) and
\* which of the two checks it ran on the way
AuthenticateRequest(token, update_data, user_id) ==
    IF Falsy(token)
    THEN [ok |-> FALSE, reason |-> "Missing webhook secret token",
          verified |-> FALSE, looked_up |-> FALSE]
    ELSE IF ~VerifyTelegramWebhook(token, update_data).value
    THEN [ok |-> FALSE, reason |-> "Invalid webhook signature",
          verified |-> TRUE, looked_up |-> FALSE]
    ELSE IF ~IsUserAuthorized(user_id)
    THEN [ok |-> FALSE, reason |-> "User is not authorized to use this bot",
          verified |-> TRUE, looked_up |-> TRUE]
    ELSE [ok |-> TRUE, reason |-> "", verified |-> TRUE, looked_up |-> TRUE]

\* the token Telegram would send for this body
Sign(update_data) == HexDigest(Hmac(SharedSecret, update_data))

\* s with its i-th character replaced by c
Replace(s, i, c) == [s EXCEPT ![i] = c]

\* the tokens a request may carry: none, the empty one, the signature of
\* any body, and every signature with a character changed, cut or added
Tokens ==
    LET sigs == {Sign(RawBody(u)) : u \in Updates} IN
    {NoToken, <<>>} \cup sigs
    \cup {Replace(s, i, c) : s \in sigs, i \in 1..2, c \in {"0", "f", NonAscii}}
    \cup {SubSeq(s, 1, 1) : s \in sigs}
    \cup {s \o <<"0">> : s \in sigs}

VARIABLES
    fs,        \* path -> [exists, data]
    lock,      \* the process holding TranscriptStorage._lock, 0 when free
    waiters,   \* the processes blocked in _lock.acquire(), in arrival order
    pc,        \* where each process is in its call
    call,      \* arguments and locals of the call each process is in
    ret,       \* how the last call of each process ended
    clock,     \* the wall clock
    ncalls,    \* calls started so far
    access,    \* the last access to the log file
    appended,  \* the completed appends, in completion order: the
               \* arguments of the call and the record it built
    req,       \* the webhook request each process handles
    auth       \* a call of AuthService: its arguments and how it ended

vars == <<fs, lock, waiters, pc, call, ret, clock, ncalls, access, appended,
          req, auth>>

NoInput ==
    [user_id |-> 0, message_id |-> 0, file_id |-> <<>>, transcription |-> <<>>,
     file_type |-> "voice", filename |-> NoneV]

NoCall ==
    [op |-> "none", input |-> NoInput, user_id |-> NoneV, limit |-> NoneV, dest |-> LogPath,
     record |-> <<>>, pending |-> <<>>, pos |-> 1, transcriptions |-> <<>>,
     total |-> 0, unique_users |-> {}, file_size_bytes |-> 0,
     file_exists |-> FALSE, scanned |-> 0]

NoStats ==
    [total_transcriptions |-> 0, unique_users |-> 0, users_is_set |-> FALSE,
     file_size_bytes |-> 0, file_exists |-> FALSE]

\* how a call ended: what it returned or raised and, for the record, the
\* filter and limit it was called with, the lines it read and the number
\* of appends that had completed when it ended
NoRet == [kind |-> "none", op |-> "none", flag |-> FALSE, list |-> <<>>,
          stats |-> NoStats, user_id |-> NoneV, limit |-> NoneV,
          scanned |-> 0, napp |-> 0]

Returned(op, flag, list, stats) ==
    [NoRet EXCEPT !.kind = "return", !.op = op, !.flag = flag, !.list = list,
                  !.stats = stats, !.napp = Len(appended)]

Raised(op) ==
    [NoRet EXCEPT !.kind = "StorageError", !.op = op, !.napp = Len(appended)]

NoAccess == [kind |-> "none", locked |-> TRUE, others |-> {}]

\* the processes that have the log file open
HasHandle(q) == pc[q] \in {"write", "close", "read", "open_dst", "copy"}

\* process p touches the log file
Touch(p, kind) ==
    [kind |-> kind, locked |-> (lock = p),
     others |-> {q \in Procs \ {p} : HasHandle(q)}]

Absent == [exists |-> FALSE, data |-> <<>>]
File(data) == [exists |-> TRUE, data |-> data]

NoResponse == [code |-> 0, status |-> "", message |-> ""]
Response(code, status, message) ==
    [code |-> code, status |-> status, message |-> message]

\* a webhook request: the header and the parsed body it came with, where
\* its handler is, and what the handler has done so far
NoReq ==
    [stage |-> "none", token |-> NoToken,
     update |-> Update(FALSE, FALSE, 0, "absent", "absent"),
     auth |-> "none", kind |-> "none", downloads |-> 0, stt |-> "none",
     transcription |-> <<>>, result |-> "none", appends |-> 0, sends |-> 0,
     sent_as |-> "none", response |-> NoResponse]

NoOutcome ==
    [ok |-> FALSE, reason |-> "", verified |-> FALSE, looked_up |-> FALSE,
     raised |-> FALSE, value |-> FALSE]

NoAuth ==
    [called |-> "none", token |-> NoToken, update_data |-> <<>>, user_id |-> 0,
     outcome |-> NoOutcome]

InitLog ==
    /\ fs \in {[p \in Paths |-> IF p = LogPath THEN f ELSE Absent] :
                 f \in {Absent, File(<<>>)}}
    /\ lock = 0
    /\ waiters = <<>>
    /\ pc = [p \in Procs |-> "idle"]
    /\ call = [p \in Procs |-> NoCall]
    /\ ret = [p \in Procs |-> NoRet]
    /\ clock = 0
    /\ ncalls = 0
    /\ access = NoAccess
    /\ appended = <<>>
    /\ req = [p \in Procs |-> NoReq]

Init == InitLog /\ auth = NoAuth

(***************************************************************************)
(* asyncio.Lock: acquire takes a free lock at once when nobody waits, and  *)
(* queues otherwise; release hands the lock to the first waiter.           *)
(***************************************************************************)
CanAcquire == lock = 0 /\ waiters = <<>>

AcquireUnguarded(p) ==
    /\ lock' = p
    /\ waiters' = waiters
    /\ pc' = [pc EXCEPT ![p] = "open"]

\* `async with self._lock` entered by p, which goes on at pc "open"
Acquire(p) ==
    IF CanAcquire
    THEN /\ lock' = p
         /\ waiters' = waiters
         /\ pc' = [pc EXCEPT ![p] = "open"]
    ELSE /\ lock' = lock
         /\ waiters' = Append(waiters, p)
         /\ pc' = [pc EXCEPT ![p] = "wait"]

ReleaseLastWaiter(p) ==
    IF waiters = <<>>
    THEN /\ lock' = 0
         /\ waiters' = waiters
         /\ pc' = [pc EXCEPT ![p] = "idle"]
    ELSE /\ lock' = waiters[Len(waiters)]
         /\ waiters' = SubSeq(waiters, 1, Len(waiters) - 1)
         /\ pc' = [pc EXCEPT ![p] = "idle", ![waiters[Len(waiters)]] = "open"]

\* `async with self._lock` left by p, whose call ends
Release(p) ==
    IF waiters = <<>>
    THEN /\ lock' = 0
         /\ waiters' = waiters
         /\ pc' = [pc EXCEPT ![p] = "idle"]
    ELSE /\ lock' = Head(waiters)
         /\ waiters' = Tail(waiters)
         /\ pc' = [pc EXCEPT ![p] = "idle", ![Head(waiters)] = "open"]

\* a new call is made by the first caller that is free
Idle(p) ==
    /\ pc[p] = "idle" /\ req[p].stage = "none"
    /\ ncalls < MaxCalls
    /\ \A q \in Procs : q < p => pc[q] # "idle"

(***************************************************************************)
(* save_transcription                                                      *)
(***************************************************************************)
\* save_transcription(in) as far as the lock: the record is built, then
\* the lock taken or waited for
SaveTranscription(p, in) ==
    LET now == Min(clock + 1, MaxClock) IN
    /\ clock' = now
    /\ call' = [call EXCEPT ![p] =
                  [NoCall EXCEPT !.op = "save", !.input = in,
                                 !.record = TranscriptRecord(now, in)]]
    /\ Acquire(p)
    /\ ret' = [ret EXCEPT ![p] = NoRet]
    /\ UNCHANGED <<fs, access, appended>>

SaveCall(p) ==
    /\ Idle(p)
    /\ \E in \in SaveInputs : SaveTranscription(p, in)
    /\ ncalls' = ncalls + 1
    /\ UNCHANGED <<req, auth>>

SaveOpenLeaksLock(p) ==
    /\ pc[p] = "open" /\ call[p].op = "save"
    /\ access' = Touch(p, "open")
    /\ \/ /\ fs' = [fs EXCEPT ![LogPath] = File(fs[LogPath].data)]
          /\ pc' = [pc EXCEPT ![p] = "write"]
          /\ UNCHANGED <<lock, waiters, ret, call>>
       \/ /\ pc' = [pc EXCEPT ![p] = "idle"]
          /\ UNCHANGED <<lock, waiters>>
          /\ ret' = [ret EXCEPT ![p] = Raised("save")]
          /\ call' = [call EXCEPT ![p] = NoCall]
          /\ UNCHANGED fs
    /\ UNCHANGED <<clock, ncalls, appended>>
    /\ UNCHANGED <<req, auth>>

\* aiofiles.open(mode='a'): creates the file when it is absent; an OSError
\* leaves the lock and surfaces as StorageError
SaveOpen(p) ==
    /\ pc[p] = "open" /\ call[p].op = "save"
    /\ access' = Touch(p, "open")
    /\ \/ /\ fs' = [fs EXCEPT ![LogPath] = File(fs[LogPath].data)]
          /\ pc' = [pc EXCEPT ![p] = "write"]
          /\ UNCHANGED <<lock, waiters, ret, call>>
       \/ /\ Release(p)
          /\ ret' = [ret EXCEPT ![p] = Raised("save")]
          /\ call' = [call EXCEPT ![p] = NoCall]
          /\ UNCHANGED fs
    /\ UNCHANGED <<clock, ncalls, appended>>
    /\ UNCHANGED <<req, auth>>

\* f.write(json.dumps(record, ensure_ascii=False) + '\n'): what exceeds the
\* buffer is written through, the rest stays buffered
SaveWrite(p) ==
    /\ pc[p] = "write" /\ call[p].op = "save"
    /\ LET line == Dumps(call[p].record) \o <<NL>>
           through == IF Len(line) > BufferSize THEN BufferSize ELSE 0
       IN /\ fs' = [fs EXCEPT ![LogPath] =
                      File(fs[LogPath].data \o SubSeq(line, 1, through))]
          /\ call' = [call EXCEPT ![p].pending =
                        SubSeq(line, through + 1, Len(line))]
    /\ access' = Touch(p, "write")
    /\ pc' = [pc EXCEPT ![p] = "close"]
    /\ UNCHANGED <<lock, waiters, ret, clock, ncalls, appended>>
    /\ UNCHANGED <<req, auth>>

SaveCloseKeepsLock(p) ==
    /\ pc[p] = "close" /\ call[p].op = "save"
    /\ fs' = [fs EXCEPT ![LogPath] =
                File(fs[LogPath].data \o call[p].pending)]
    /\ access' = Touch(p, "write")
    /\ appended' = Append(appended, [input |-> call[p].input,
                                     record |-> call[p].record])
    /\ pc' = [pc EXCEPT ![p] = "idle"]
    /\ UNCHANGED <<lock, waiters>>
    /\ ret' = [ret EXCEPT ![p] = Returned("save", TRUE, <<>>, NoStats)]
    /\ call' = [call EXCEPT ![p] = NoCall]
    /\ req' = [req EXCEPT ![p].appends =
                 IF req[p].stage = "save" THEN @ + 1 ELSE @]
    /\ UNCHANGED <<clock, ncalls, auth>>

\* leaving `async with aiofiles.open`: the buffer is flushed and the file
\* closed; then the lock is released and the call returns True
SaveClose(p) ==
    /\ pc[p] = "close" /\ call[p].op = "save"
    /\ fs' = [fs EXCEPT ![LogPath] =
                File(fs[LogPath].data \o call[p].pending)]
    /\ access' = Touch(p, "write")
    /\ appended' = Append(appended, [input |-> call[p].input,
                                     record |-> call[p].record])
    /\ Release(p)
    /\ ret' = [ret EXCEPT ![p] = Returned("save", TRUE, <<>>, NoStats)]
    /\ call' = [call EXCEPT ![p] = NoCall]
    /\ req' = [req EXCEPT ![p].appends =
                 IF req[p].stage = "save" THEN @ + 1 ELSE @]
    /\ UNCHANGED <<clock, ncalls, auth>>

(***************************************************************************)
(* get_transcriptions                                                      *)
(***************************************************************************)
ListCall(p) ==
    /\ Idle(p)
    /\ access' = Touch(p, "exists")
    /\ \E u \in UserFilters, l \in Limits :
        IF fs[LogPath].exists
        THEN /\ call' = [call EXCEPT ![p] =
                           [NoCall EXCEPT !.op = "list", !.user_id = u,
                                          !.limit = l]]
             /\ Acquire(p)
             /\ ret' = [ret EXCEPT ![p] = NoRet]
        ELSE /\ ret' = [ret EXCEPT ![p] =
                          [Returned("list", TRUE, <<>>, NoStats)
                              EXCEPT !.user_id = u, !.limit = l]]
             /\ UNCHANGED <<lock, waiters, pc, call>>
    /\ ncalls' = ncalls + 1
    /\ UNCHANGED <<fs, clock, appended>>
    /\ UNCHANGED <<req, auth>>

\* aiofiles.open(mode='r')
ListOpen(p) ==
    /\ pc[p] = "open" /\ call[p].op = "list"
    /\ access' = Touch(p, "open")
    /\ \/ /\ pc' = [pc EXCEPT ![p] = "read"]
          /\ UNCHANGED <<lock, waiters, ret, call>>
       \/ /\ Release(p)
          /\ ret' = [ret EXCEPT ![p] = Raised("list")]
          /\ call' = [call EXCEPT ![p] = NoCall]
    /\ UNCHANGED <<fs, clock, ncalls, appended>>
    /\ UNCHANGED <<req, auth>>

\* `limit and len(transcriptions) >= limit`
LimitReached(limit, n) == limit.t = "int" /\ limit.n # 0 /\ n >= limit.n

FilteredOutNever(user_id, d) == FALSE

\* `user_id is not None and record.get('user_id') != user_id`
FilteredOut(user_id, d) == user_id # NoneV /\ DictGet(d, "user_id") # user_id

\* one pass of `async for line in f` in get_transcriptions
ListRead(p) ==
    /\ pc[p] = "read" /\ call[p].op = "list"
    /\ call[p].pos <= Len(fs[LogPath].data)
    /\ access' = Touch(p, "read")
    /\ \E raw \in {ReadLine(fs[LogPath].data, call[p].pos)} :
       \E line \in {Strip(raw)} :
       \E r \in {Loads(line)} :
       LET c == call[p]
           c1 == [c EXCEPT !.pos = c.pos + Len(raw), !.scanned = c.scanned + 1]
           c2 == [c1 EXCEPT !.transcriptions =
                    Append(c.transcriptions,
                           [isdict |-> r.isdict, d |-> r.d, v |-> r.v])]
       IN IF line = <<>> \/ ~r.ok
          THEN /\ call' = [call EXCEPT ![p] = c1]
               /\ UNCHANGED <<lock, waiters, pc, ret>>
          ELSE IF c.user_id # NoneV /\ ~r.isdict
          THEN \* record.get on a value that is no dict: AttributeError
               /\ Release(p)
               /\ ret' = [ret EXCEPT ![p] = Raised("list")]
               /\ call' = [call EXCEPT ![p] = NoCall]
          ELSE IF FilteredOut(c.user_id, r.d)
          THEN /\ call' = [call EXCEPT ![p] = c1]
               /\ UNCHANGED <<lock, waiters, pc, ret>>
          ELSE IF LimitReached(c.limit, Len(c2.transcriptions))
          THEN /\ call' = [call EXCEPT ![p] = c2]
               /\ pc' = [pc EXCEPT ![p] = "break"]
               /\ UNCHANGED <<lock, waiters, ret>>
          ELSE /\ call' = [call EXCEPT ![p] = c2]
               /\ UNCHANGED <<lock, waiters, pc, ret>>
    /\ UNCHANGED <<fs, clock, ncalls, appended>>
    /\ UNCHANGED <<req, auth>>

\* the loop ends (end of file, or break): the file is closed, the lock
\* released and the list returned
ListClose(p) ==
    /\ call[p].op = "list"
    /\ \/ pc[p] = "break"
       \/ pc[p] = "read" /\ call[p].pos > Len(fs[LogPath].data)
    /\ access' = Touch(p, "read")
    /\ Release(p)
    /\ ret' = [ret EXCEPT ![p] =
                 [Returned("list", TRUE, call[p].transcriptions, NoStats)
                     EXCEPT !.user_id = call[p].user_id,
                            !.limit = call[p].limit,
                            !.scanned = call[p].scanned]]
    /\ call' = [call EXCEPT ![p] = NoCall]
    /\ UNCHANGED <<fs, clock, ncalls, appended>>
    /\ UNCHANGED <<req, auth>>

(***************************************************************************)
(* get_storage_stats                                                       *)
(***************************************************************************)
\* the size of the file in bytes: one byte per character of the model
FileSize(f) == Len(f.data)

StatsCall(p) ==
    /\ Idle(p)
    /\ access' = Touch(p, IF fs[LogPath].exists THEN "stat" ELSE "exists")
    /\ IF fs[LogPath].exists
       THEN /\ call' = [call EXCEPT ![p] =
                          [NoCall EXCEPT !.op = "stats", !.file_exists = TRUE,
                                         !.file_size_bytes = FileSize(fs[LogPath])]]
            /\ Acquire(p)
            /\ ret' = [ret EXCEPT ![p] = NoRet]
       ELSE \* the early return hands out the dict with the set in it
            /\ ret' = [ret EXCEPT ![p] =
                         Returned("stats", TRUE, <<>>,
                                  [NoStats EXCEPT !.users_is_set = TRUE])]
            /\ UNCHANGED <<lock, waiters, pc, call>>
    /\ ncalls' = ncalls + 1
    /\ UNCHANGED <<fs, clock, appended>>
    /\ UNCHANGED <<req, auth>>

StatsOpen(p) ==
    /\ pc[p] = "open" /\ call[p].op = "stats"
    /\ access' = Touch(p, "open")
    /\ \/ /\ pc' = [pc EXCEPT ![p] = "read"]
          /\ UNCHANGED <<lock, waiters, ret, call>>
       \/ /\ Release(p)
          /\ ret' = [ret EXCEPT ![p] = Raised("stats")]
          /\ call' = [call EXCEPT ![p] = NoCall]
    /\ UNCHANGED <<fs, clock, ncalls, appended>>
    /\ UNCHANGED <<req, auth>>

\* one pass of `async for line in f` in get_storage_stats
StatsRead(p) ==
    /\ pc[p] = "read" /\ call[p].op = "stats"
    /\ call[p].pos <= Len(fs[LogPath].data)
    /\ access' = Touch(p, "read")
    /\ \E raw \in {ReadLine(fs[LogPath].data, call[p].pos)} :
       \E line \in {Strip(raw)} :
       \E r \in {Loads(line)} :
       LET c == call[p]
           c1 == [c EXCEPT !.pos = c.pos + Len(raw), !.scanned = c.scanned + 1]
       IN IF line = <<>> \/ ~r.ok
          THEN /\ call' = [call EXCEPT ![p] = c1]
               /\ UNCHANGED <<lock, waiters, pc, ret>>
          ELSE IF ~r.isdict
          THEN \* record.get on a value that is no dict: AttributeError
               /\ Release(p)
               /\ ret' = [ret EXCEPT ![p] = Raised("stats")]
               /\ call' = [call EXCEPT ![p] = NoCall]
          ELSE /\ call' = [call EXCEPT ![p] =
                             [c1 EXCEPT !.total = c.total + 1,
                                        !.unique_users = c.unique_users \cup
                                            {DictGet(r.d, "user_id")}]]
               /\ UNCHANGED <<lock, waiters, pc, ret>>
    /\ UNCHANGED <<fs, clock, ncalls, appended>>
    /\ UNCHANGED <<req, auth>>

StatsResultCountsLines(c) ==
    [total_transcriptions |-> c.total,
     unique_users |-> c.total,
     users_is_set |-> FALSE,
     file_size_bytes |-> c.file_size_bytes,
     file_exists |-> c.file_exists]

\* the stats dict after the loop: the set of user ids turned into its size
StatsResult(c) ==
    [total_transcriptions |-> c.total,
     unique_users |-> Cardinality(c.unique_users),
     users_is_set |-> FALSE,
     file_size_bytes |-> c.file_size_bytes,
     file_exists |-> c.file_exists]

\* end of file: close, release, turn the set into its size and return
StatsClose(p) ==
    /\ pc[p] = "read" /\ call[p].op = "stats"
    /\ call[p].pos > Len(fs[LogPath].data)
    /\ access' = Touch(p, "read")
    /\ Release(p)
    /\ ret' = [ret EXCEPT ![p] =
                 Returned("stats", TRUE, <<>>, StatsResult(call[p]))]
    /\ call' = [call EXCEPT ![p] = NoCall]
    /\ UNCHANGED <<fs, clock, ncalls, appended>>
    /\ UNCHANGED <<req, auth>>

(***************************************************************************)
(* backup_transcriptions                                                   *)
(***************************************************************************)
BackupCall(p) ==
    /\ Idle(p)
    /\ access' = Touch(p, "exists")
    /\ IF fs[LogPath].exists
       THEN /\ \E dest \in Paths :
                 call' = [call EXCEPT ![p] =
                            [NoCall EXCEPT !.op = "backup", !.dest = dest]]
            /\ Acquire(p)
            /\ ret' = [ret EXCEPT ![p] = NoRet]
       ELSE /\ ret' = [ret EXCEPT ![p] =
                         Returned("backup", FALSE, <<>>, NoStats)]
            /\ UNCHANGED <<lock, waiters, pc, call>>
    /\ ncalls' = ncalls + 1
    /\ UNCHANGED <<fs, clock, appended>>
    /\ UNCHANGED <<req, auth>>

\* aiofiles.open(self.file_path, mode='rb')
BackupOpenSrc(p) ==
    /\ pc[p] = "open" /\ call[p].op = "backup"
    /\ access' = Touch(p, "open")
    /\ \/ /\ pc' = [pc EXCEPT ![p] = "open_dst"]
          /\ UNCHANGED <<lock, waiters, ret, call>>
       \/ /\ Release(p)
          /\ ret' = [ret EXCEPT ![p] = Raised("backup")]
          /\ call' = [call EXCEPT ![p] = NoCall]
    /\ UNCHANGED <<fs, clock, ncalls, appended>>
    /\ UNCHANGED <<req, auth>>

\* aiofiles.open(backup_file, mode='wb'): creates the destination or
\* truncates it to nothing, whatever file the path names
BackupOpenDst(p) ==
    /\ pc[p] = "open_dst" /\ call[p].op = "backup"
    /\ \/ /\ fs' = [fs EXCEPT ![call[p].dest] = File(<<>>)]
          /\ access' = IF call[p].dest = LogPath THEN Touch(p, "truncate")
                       ELSE access
          /\ pc' = [pc EXCEPT ![p] = "copy"]
          /\ UNCHANGED <<lock, waiters, ret, call>>
       \/ /\ Release(p)
          /\ ret' = [ret EXCEPT ![p] = Raised("backup")]
          /\ call' = [call EXCEPT ![p] = NoCall]
          /\ UNCHANGED <<fs, access>>
    /\ UNCHANGED <<clock, ncalls, appended>>
    /\ UNCHANGED <<req, auth>>

\* one pass of `async for chunk in src: await dst.write(chunk)`
BackupCopy(p) ==
    /\ pc[p] = "copy" /\ call[p].op = "backup"
    /\ call[p].pos <= Len(fs[LogPath].data)
    /\ access' = Touch(p, "read")
    /\ LET chunk == ReadLine(fs[LogPath].data, call[p].pos) IN
        /\ fs' = [fs EXCEPT ![call[p].dest] =
                    File(fs[call[p].dest].data \o chunk)]
        /\ call' = [call EXCEPT ![p].pos = call[p].pos + Len(chunk)]
    /\ UNCHANGED <<lock, waiters, pc, ret, clock, ncalls, appended>>
    /\ UNCHANGED <<req, auth>>

\* end of the source: both files are closed, the lock released, True returned
BackupClose(p) ==
    /\ pc[p] = "copy" /\ call[p].op = "backup"
    /\ call[p].pos > Len(fs[LogPath].data)
    /\ access' = Touch(p, "read")
    /\ Release(p)
    /\ ret' = [ret EXCEPT ![p] = Returned("backup", TRUE, <<>>, NoStats)]
    /\ call' = [call EXCEPT ![p] = NoCall]
    /\ UNCHANGED <<fs, clock, ncalls, appended>>
    /\ UNCHANGED <<req, auth>>

(***************************************************************************)
(* Calls of AuthService on arbitrary arguments                             *)
(***************************************************************************)
AuthArguments ==
    {[NoAuth EXCEPT !.token = t, !.update_data = RawBody(u), !.user_id = id] :
        t \in Tokens, u \in Updates, id \in AllowedUserIds \cup {Outsider}}

InitAuth == InitLog /\ auth \in AuthArguments

logvars == <<fs, lock, waiters, pc, call, ret, clock, ncalls, access,
             appended, req>>

CallAuthenticateRequest ==
    /\ auth.called = "none"
    /\ LET o == AuthenticateRequest(auth.token, auth.update_data, auth.user_id)
       IN auth' = [auth EXCEPT !.called = "authenticate_request",
                               !.outcome = [ok |-> o.ok, reason |-> o.reason,
                                            verified |-> o.verified,
                                            looked_up |-> o.looked_up,
                                            raised |-> ~o.ok, value |-> o.ok]]
    /\ UNCHANGED logvars

CallVerifyTelegramWebhook ==
    /\ auth.called = "none"
    /\ LET o == VerifyTelegramWebhook(auth.token, auth.update_data)
       IN auth' = [auth EXCEPT !.called = "verify_telegram_webhook",
                               !.outcome = [NoOutcome EXCEPT
                                              !.raised = o.raised,
                                              !.value = o.value]]
    /\ UNCHANGED logvars

CallIsUserAuthorized ==
    /\ auth.called = "none"
    /\ auth' = [auth EXCEPT !.called = "is_user_authorized",
                            !.outcome = [NoOutcome EXCEPT
                                           !.value = IsUserAuthorized(auth.user_id)]]
    /\ UNCHANGED logvars

NextAuth ==
    \/ CallAuthenticateRequest
    \/ CallVerifyTelegramWebhook
    \/ CallIsUserAuthorized

SpecAuth == InitAuth /\ [][NextAuth]_vars

(***************************************************************************)
(* handle_webhook                                                          *)
(***************************************************************************)
FreeForRequest(p) ==
    /\ req[p].stage = "none" /\ pc[p] = "idle"
    /\ Cardinality({q \in Procs : req[q].stage # "none"}) < MaxRequests
    /\ \A q \in Procs : q < p => req[q].stage # "none"

\* the attachment handle_webhook goes for: the voice when the message has
\* the key "voice", else the audio
Attachment(u) == IF u.voice # "absent" THEN "voice" ELSE "audio"

CompletedMessage(kind) ==
    IF kind = "voice" THEN "Voice transcription completed"
    ELSE "Audio transcription completed"

FailedMessage(kind) ==
    IF kind = "voice" THEN "Voice transcription failed"
    ELSE "Audio transcription failed"

AuthFailedResponseWithReason(reason) == Response(200, "ok", reason)

\* what handle_webhook returns when authenticate_request raised
AuthFailedResponse(reason) == Response(200, "ok", "Authentication failed")

\* the arguments process_voice_message / process_audio_message pass on to
\* save_transcription
SaveArguments(r) ==
    [user_id |-> r.update.user_id, message_id |-> 1, file_id |-> <<"f", "1">>,
     transcription |-> r.transcription, file_type |-> r.kind,
     filename |-> IF r.kind = "audio" THEN StrV(<<"audio.mp3">>) ELSE NoneV]

\* the text speech-to-text may give: stripped and not empty
Texts == {<<"a">>}

\* the X-Telegram-Bot-Api-Secret-Token headers a request with update u
\* comes with: none, an empty one, the signature of its body, and that
\* signature with its first character changed
RequestTokens(u) ==
    LET sig == Sign(RawBody(u)) IN
    {NoToken, <<>>, sig, Replace(sig, 1, IF sig[1] = "0" THEN "f" ELSE "0")}

\* the request arrives; the handler runs up to its first network call or
\* to its return
Receive(p) ==
    /\ FreeForRequest(p)
    /\ \E u \in Updates : \E t \in RequestTokens(u) :
        LET r == [NoReq EXCEPT !.token = t, !.update = u]
            a == AuthenticateRequest(t, RawBody(u), u.user_id)
            done(resp) == [r EXCEPT !.stage = "done", !.response = resp]
        IN req' = [req EXCEPT ![p] =
            IF ~u.json THEN done(Response(400, "", "Invalid JSON"))
            ELSE IF ~u.message
            THEN done(Response(200, "ok", "No message to process"))
            ELSE IF u.user_id = 0
            THEN done(Response(200, "ok", "Invalid message format"))
            ELSE IF ~a.ok
            THEN [done(AuthFailedResponse(a.reason)) EXCEPT !.auth = a.reason]
            ELSE IF u.voice = "absent" /\ u.audio = "absent"
            THEN [r EXCEPT !.auth = "ok", !.stage = "send", !.sent_as = "help"]
            ELSE IF u[Attachment(u)] = "nofile"
            THEN [r EXCEPT !.auth = "ok", !.kind = Attachment(u),
                           !.stage = "send", !.sent_as = "error"]
            ELSE [r EXCEPT !.auth = "ok", !.kind = Attachment(u),
                           !.stage = "download"]]
    /\ UNCHANGED <<fs, lock, waiters, pc, call, ret, clock, ncalls, access,
                   appended, auth>>

\* download_audio_file: the file arrives, or TranscriptionError, which
\* process_*_message turns into the text it returns
Download(p) ==
    /\ req[p].stage = "download"
    /\ \/ req' = [req EXCEPT ![p].downloads = @ + 1, ![p].stage = "transcribe"]
       \/ req' = [req EXCEPT ![p].downloads = @ + 1, ![p].stage = "send",
                             ![p].result = "failure",
                             ![p].sent_as = "transcription"]
    /\ UNCHANGED <<fs, lock, waiters, pc, call, ret, clock, ncalls, access,
                   appended, auth>>

\* transcribe_audio succeeds: the text is there and save_transcription is
\* called with it
Transcribe(p) ==
    /\ req[p].stage = "transcribe"
    /\ \E text \in Texts :
        LET r == [req[p] EXCEPT !.stt = "ok", !.transcription = text,
                                !.stage = "save"]
        IN /\ req' = [req EXCEPT ![p] = r]
           /\ SaveTranscription(p, SaveArguments(r))
    /\ UNCHANGED <<ncalls, auth>>

\* transcribe_audio raises TranscriptionError
TranscribeFails(p) ==
    /\ req[p].stage = "transcribe"
    /\ req' = [req EXCEPT ![p].stt = "failed", ![p].stage = "send",
                          ![p].result = "failure",
                          ![p].sent_as = "transcription"]
    /\ UNCHANGED <<fs, lock, waiters, pc, call, ret, clock, ncalls, access,
                   appended, auth>>

\* save_transcription is over: process_*_message returns the text, or, on
\* StorageError, the text of the error
AfterSave(p) ==
    /\ req[p].stage = "save" /\ pc[p] = "idle" /\ ret[p].kind # "none"
    /\ req' = [req EXCEPT ![p].stage = "send",
                          ![p].result = IF ret[p].kind = "return" THEN "text"
                                        ELSE "error",
                          ![p].sent_as = "transcription"]
    /\ UNCHANGED <<fs, lock, waiters, pc, call, ret, clock, ncalls, access,
                   appended, auth>>

\* send_message (its failure is ignored), then the return of handle_webhook
Send(p) ==
    /\ req[p].stage = "send"
    /\ req' = [req EXCEPT ![p].stage = "done", ![p].sends = @ + 1,
                 ![p].response =
                    IF req[p].sent_as = "help"
                    THEN Response(200, "ok", "Help message sent")
                    ELSE IF req[p].sent_as = "error"
                    THEN Response(200, "error", FailedMessage(req[p].kind))
                    ELSE Response(200, "ok", CompletedMessage(req[p].kind))]
    /\ UNCHANGED <<fs, lock, waiters, pc, call, ret, clock, ncalls, access,
                   appended, auth>>

\* webhook requests handled concurrently
NextWebhook ==
    \E p \in Procs :
        \/ Receive(p) \/ Download(p) \/ Transcribe(p) \/ TranscribeFails(p)
        \/ SaveOpen(p) \/ SaveWrite(p) \/ SaveClose(p)
        \/ AfterSave(p) \/ Send(p)

SpecWebhook == Init /\ [][NextWebhook]_vars

(***************************************************************************)
(* Specifications                                                          *)
(***************************************************************************)
\* every operation of the log, called concurrently
Next ==
    \E p \in Procs :
        \/ SaveCall(p) \/ SaveOpen(p) \/ SaveWrite(p) \/ SaveClose(p)
        \/ ListCall(p) \/ ListOpen(p) \/ ListRead(p) \/ ListClose(p)
        \/ StatsCall(p) \/ StatsOpen(p) \/ StatsRead(p) \/ StatsClose(p)
        \/ BackupCall(p) \/ BackupOpenSrc(p) \/ BackupOpenDst(p)
        \/ BackupCopy(p) \/ BackupClose(p)

Spec == Init /\ [][Next]_vars

\* the steps of a call of p that has started
Continue(p) ==
    \/ SaveOpen(p) \/ SaveWrite(p) \/ SaveClose(p)
    \/ ListOpen(p) \/ ListRead(p) \/ ListClose(p)
    \/ StatsOpen(p) \/ StatsRead(p) \/ StatsClose(p)
    \/ BackupOpenSrc(p) \/ BackupOpenDst(p) \/ BackupCopy(p)
    \/ BackupClose(p)

\* every operation, as long as fewer than MaxFairCalls calls were made
NextFair ==
    \E p \in Procs :
        \/ ncalls < MaxFairCalls /\ SaveCall(p)
        \/ ncalls < MaxFairCalls /\ ListCall(p)
        \/ ncalls < MaxFairCalls /\ StatsCall(p)
        \/ ncalls < MaxFairCalls /\ BackupCall(p)
        \/ Continue(p)

\* the event loop and the thread pool of aiofiles go on with every call
\* that can go on
SpecFair ==
    Init /\ [][NextFair]_vars /\ \A p \in Procs : WF_vars(Continue(p))

TypeOK ==
    /\ lock \in 0..NumProcs
    /\ \A p \in Procs : pc[p] \in {"idle", "wait", "open", "write", "close",
                                   "read", "break", "open_dst", "copy"}

\* get_transcriptions and save_transcription only, called concurrently
NextAppendList ==
    \E p \in Procs :
        \/ SaveCall(p) \/ SaveOpen(p) \/ SaveWrite(p) \/ SaveClose(p)
        \/ ListCall(p) \/ ListOpen(p) \/ ListRead(p) \/ ListClose(p)

SpecAppendList == Init /\ [][NextAppendList]_vars

\* get_storage_stats and save_transcription only, called concurrently
NextAppendStats ==
    \E p \in Procs :
        \/ SaveCall(p) \/ SaveOpen(p) \/ SaveWrite(p) \/ SaveClose(p)
        \/ StatsCall(p) \/ StatsOpen(p) \/ StatsRead(p) \/ StatsClose(p)

SpecAppendStats == Init /\ [][NextAppendStats]_vars

\* the two records of a log that was written earlier, in file order
EarlierAppends ==
    LET in1 == CHOOSE in \in SaveInputs : in.user_id = 42
        in2 == CHOOSE in \in SaveInputs : in.user_id = 7
    IN << [input |-> in1, record |-> TranscriptRecord(1, in1)],
          [input |-> in2, record |-> TranscriptRecord(2, in2)] >>

\* lines json.loads or record.get has to cope with: a blank line, a record
\* cut off in the middle, and JSON text that is not an object
BadLines ==
    { <<SPACE>>,
      SubSeq(Dumps(EarlierAppends[1].record), 1, 12),
      <<"4", "2">> }

\* a log with one bad line between two records
DamagedLogs ==
    { Dumps(EarlierAppends[1].record) \o <<NL>> \o bad \o <<NL>>
          \o Dumps(EarlierAppends[2].record) \o <<NL>> : bad \in BadLines }

InitDamagedLog ==
    /\ fs \in {[p \in Paths |-> IF p = LogPath THEN File(data) ELSE Absent] :
                 data \in DamagedLogs}
    /\ lock = 0
    /\ waiters = <<>>
    /\ pc = [p \in Procs |-> "idle"]
    /\ call = [p \in Procs |-> NoCall]
    /\ ret = [p \in Procs |-> NoRet]
    /\ clock = 2
    /\ ncalls = 0
    /\ access = NoAccess
    /\ appended = EarlierAppends
    /\ req = [p \in Procs |-> NoReq]
    /\ auth = NoAuth

\* get_transcriptions and get_storage_stats called on a damaged log
NextRead ==
    \E p \in Procs :
        \/ ListCall(p) \/ ListOpen(p) \/ ListRead(p) \/ ListClose(p)
        \/ StatsCall(p) \/ StatsOpen(p) \/ StatsRead(p) \/ StatsClose(p)

SpecDamagedLog == InitDamagedLog /\ [][NextRead]_vars

(***************************************************************************)
(* Properties of the log                                                   *)
(***************************************************************************)
IsPrefix(s, t) == Len(s) <= Len(t) /\ SubSeq(t, 1, Len(s)) = s

\* the lines the completed appends make up
LinesOf(as) ==
    Flatten([i \in 1..Len(as) |-> Dumps(as[i].record) \o <<NL>>])

Writers == {p \in Procs : call[p].op = "save" /\ pc[p] \in {"write", "close"}}
Readers == {p \in Procs : call[p].op = "list" /\ pc[p] \in {"read", "break"}}

\* C1: at most one operation touches the log file at a time: no operation
\* accesses the file while another operation has it open.
MutualExclusion == access.others = {}

\* C2: the log is the lines of the completed appends, one whole line per
\* append that returned, followed at most by the part the one append in
\* progress has written so far of its own line; while a get_transcriptions
\* reads, the log holds whole lines only.
NoInterleavedAppend ==
    /\ Cardinality(Writers) <= 1
    /\ \A p \in Procs :
        (call[p].op = "save" /\ pc[p] = "close") =>
            /\ fs[LogPath].data \o call[p].pending =
                   LinesOf(appended) \o Dumps(call[p].record) \o <<NL>>
    /\ (\A p \in Procs : ~(call[p].op = "save" /\ pc[p] = "close")) =>
            fs[LogPath].data = LinesOf(appended)
    /\ Readers # {} => fs[LogPath].data = LinesOf(appended)

\* C2 witness: an append has written half of its line while another append
\* and a get_transcriptions of the same log wait for it, after a first
\* append has completed
ConcurrentAppendsSeen ==
    \E p \in Procs :
        /\ call[p].op = "save" /\ pc[p] = "close"
        /\ call[p].pending # <<>>
        /\ fs[LogPath].data # LinesOf(appended)
        /\ Len(waiters) >= 1

\* C3: the content of the log in a later state has its content in every
\* earlier state as a prefix, and the log never disappears.
AppendOnly ==
    [][/\ IsPrefix(fs[LogPath].data, fs'[LogPath].data)
       /\ fs[LogPath].exists => fs'[LogPath].exists]_vars

\* the completed appends a call that ended had before it
AppendedBefore(r) == SubSeq(appended, 1, r.napp)

\* the appends of user_id, all of them when user_id is None
Matching(as, user_id) ==
    LET Test(a) == user_id = NoneV \/ IntV(a.input.user_id) = user_id
    IN SelectSeq(as, Test)

\* the records get_transcriptions hands out for these appends
Listed(as) ==
    [i \in 1..Len(as) |-> [isdict |-> TRUE, d |-> as[i].record, v |-> NoneV]]

ListReturned(p) == ret[p].op = "list" /\ ret[p].kind = "return"

TimestampsOfLog == {StrV(Timestamp(t)) : t \in 0..MaxClock}

RecordKeys ==
    {"timestamp", "user_id", "message_id", "file_id", "file_type",
     "filename", "transcription", "character_count"}

\* the listed record x carries the arguments in of its save_transcription
CarriesInput(x, in) ==
    /\ x.isdict
    /\ {x.d[i].k : i \in 1..Len(x.d)} = RecordKeys
    /\ Len(x.d) = Cardinality(RecordKeys)
    /\ DictGet(x.d, "user_id") = IntV(in.user_id)
    /\ DictGet(x.d, "message_id") = IntV(in.message_id)
    /\ DictGet(x.d, "file_id") = StrV(in.file_id)
    /\ DictGet(x.d, "file_type") = StrV(<<in.file_type>>)
    /\ DictGet(x.d, "filename") = in.filename
    /\ DictGet(x.d, "transcription") = StrV(in.transcription)
    /\ DictGet(x.d, "character_count") = IntV(Len(in.transcription))
    /\ DictGet(x.d, "timestamp") \in TimestampsOfLog

\* C8: get_transcriptions() without filter and limit returns one record per
\* completed append, in order, each with the fields its save_transcription
\* was given, a timestamp of the log's clock and character_count equal to
\* the length of the transcription.
RoundTrip ==
    \A p \in Procs :
        (ListReturned(p) /\ ret[p].user_id = NoneV /\ ret[p].limit = NoneV) =>
            /\ Len(ret[p].list) = ret[p].napp
            /\ \A i \in 1..Len(ret[p].list) :
                 CarriesInput(ret[p].list[i], appended[i].input)

\* C8 witness: a single append to a fresh log, of a text with a newline, a
\* quote and a backslash in it, was listed
RoundTripSeen ==
    \E p \in Procs :
        /\ ListReturned(p) /\ ret[p].user_id = NoneV /\ ret[p].limit = NoneV
        /\ ret[p].napp = 1 /\ Len(ret[p].list) = 1
        /\ DictGet(ret[p].list[1].d, "transcription") =
               StrV(<<"a", NL, QUOTE, BSL>>)

\* C9: get_transcriptions(user_id=u) without limit returns exactly the
\* records of the completed appends of user u, each once, in append order;
\* without filter it returns all of them in append order.
FilterKeepsOrder ==
    \A p \in Procs :
        (ListReturned(p) /\ ret[p].limit = NoneV) =>
            ret[p].list = Listed(Matching(AppendedBefore(ret[p]), ret[p].user_id))

\* C9 witness: a filtered call returned some but not all of the records
FilterSeen ==
    \E p \in Procs :
        /\ ListReturned(p) /\ ret[p].limit = NoneV /\ ret[p].user_id = IntV(42)
        /\ ret[p].napp = 2
        /\ Len(ret[p].list) = 1

\* the number of appends up to the one that is the n-th match of user_id
NthMatch(as, user_id, n) ==
    IF n = 0 THEN 0
    ELSE CHOOSE k \in 1..Len(as) :
            /\ Len(Matching(SubSeq(as, 1, k), user_id)) = n
            /\ Len(Matching(SubSeq(as, 1, k - 1), user_id)) = n - 1

\* C10: get_transcriptions(limit=L) with L >= 0 returns exactly the first
\* min(L, M) of the M matching records, never more than L, and has read no
\* line after the one that gave it the L-th record.
LimitIsMaximum ==
    \A p \in Procs :
        (ListReturned(p) /\ ret[p].limit.t = "int") =>
            LET m == Matching(AppendedBefore(ret[p]), ret[p].user_id)
                n == Min(ret[p].limit.n, Len(m))
            IN /\ ret[p].list = Listed(SubSeq(m, 1, n))
               /\ Len(ret[p].list) <= ret[p].limit.n
               /\ Len(m) >= ret[p].limit.n =>
                      ret[p].scanned = NthMatch(AppendedBefore(ret[p]),
                                                ret[p].user_id, n)

(***************************************************************************)
(* Properties of the authentication and of the webhook handler             *)
(***************************************************************************)
Authenticated == auth.called = "authenticate_request"
Verified == auth.called = "verify_telegram_webhook"

\* C4: authenticate_request fails on the first failing check, in the order
\* token present, signature, allow-list: a missing or empty token gives
\* 'missing token' and no HMAC is computed; else a token that is not the
\* signature of the body gives 'invalid signature' and the allow-list is
\* not consulted; else a user outside the allow-list gives 'not authorized';
\* it succeeds exactly when all three checks pass.
AuthenticationOrder ==
    Authenticated =>
        LET o == auth.outcome
            signed == auth.token = Sign(auth.update_data)
            listed == auth.user_id \in AllowedUserIds
        IN /\ Falsy(auth.token) =>
                /\ o.raised /\ o.reason = "Missing webhook secret token"
                /\ ~o.verified /\ ~o.looked_up
           /\ (~Falsy(auth.token) /\ ~signed) =>
                /\ o.raised /\ o.reason = "Invalid webhook signature"
                /\ ~o.looked_up
           /\ (~Falsy(auth.token) /\ signed /\ ~listed) =>
                /\ o.raised
                /\ o.reason = "User is not authorized to use this bot"
           /\ o.ok <=> (~Falsy(auth.token) /\ signed /\ listed)
           /\ o.ok <=> ~o.raised

\* C4 witness: a correctly signed request of a user outside the allow-list
\* was rejected by the last check
UnauthorizedUserSeen ==
    /\ Authenticated
    /\ auth.token = Sign(auth.update_data)
    /\ auth.user_id = Outsider
    /\ auth.outcome.reason = "User is not authorized to use this bot"

\* C5: verify_telegram_webhook(token, body) is true exactly when token is
\* the hex HMAC of the body under the shared secret, so the signature of a
\* body verifies no other body; it never raises, an internal error counts
\* as false.
SignatureVerification ==
    Verified =>
        /\ ~auth.outcome.raised
        /\ auth.outcome.value <=> (auth.token = Sign(auth.update_data))
        /\ \A u \in Updates :
              RawBody(u) # auth.update_data =>
                 ~VerifyTelegramWebhook(Sign(auth.update_data), RawBody(u)).value

\* C5 witness: a token on which the comparison fails internally was
\* answered with false
InternalErrorSeen ==
    /\ Verified
    /\ \E i \in 1..Len(auth.token) : auth.token[i] = NonAscii
    /\ ~auth.outcome.value

AuthFailed(p) == req[p].stage = "done" /\ req[p].auth \notin {"none", "ok"}

\* C6: any two requests that fail authenticate_request get the same HTTP
\* response, and for neither is a message sent, audio downloaded or a
\* record appended.
AuthFailureOpaque ==
    /\ \A p, q \in Procs :
          (AuthFailed(p) /\ AuthFailed(q)) => req[p].response = req[q].response
    /\ \A p \in Procs :
          AuthFailed(p) =>
             req[p].sends = 0 /\ req[p].downloads = 0 /\ req[p].appends = 0

\* C6 witness: two requests were rejected for different reasons
TwoKindsOfFailureSeen ==
    \E p, q \in Procs :
        AuthFailed(p) /\ AuthFailed(q) /\ req[p].auth # req[q].auth

\* the request is signed by the platform and sent by an allowed user
PassesAuth(r) ==
    /\ ~Falsy(r.token)
    /\ r.token = Sign(RawBody(r.update))
    /\ r.update.user_id \in AllowedUserIds

\* the append of a request happens after its authentication and with the
\* text speech-to-text gave, and no request appends twice
AppendsInOrder ==
    \A p \in Procs :
        /\ req[p].appends <= 1
        /\ (req[p].appends = 1 \/ (req[p].stage = "save" /\ pc[p] # "idle")) =>
              /\ PassesAuth(req[p]) /\ req[p].auth = "ok"
              /\ req[p].downloads = 1 /\ req[p].stt = "ok"
        /\ (req[p].stage = "save" /\ pc[p] # "idle") =>
              /\ req[p].appends = 0
              /\ call[p].input.transcription = req[p].transcription
              /\ req[p].transcription # <<>>

\* C7 as claimed: a request appends exactly one record if it passes
\* authentication and its download and speech-to-text succeed, and none
\* otherwise.
RecordPerTranscription ==
    /\ AppendsInOrder
    /\ \A p \in Procs :
          req[p].stage = "done" =>
             req[p].appends =
                IF PassesAuth(req[p]) /\ req[p].stt = "ok" THEN 1 ELSE 0

\* C7 as amended: a request appends exactly one record if it passes
\* authentication, its download and speech-to-text succeed and
\* save_transcription does not raise StorageError, and none otherwise.
RecordPerSavedTranscription ==
    /\ AppendsInOrder
    /\ \A p \in Procs :
          req[p].stage = "done" =>
             req[p].appends =
                IF PassesAuth(req[p]) /\ req[p].stt = "ok"
                   /\ req[p].result # "error"
                THEN 1 ELSE 0

\* C7 witness: a message with both a voice and an audio attachment was
\* answered after exactly one append
BothAttachmentsSeen ==
    \E p \in Procs :
        /\ req[p].stage = "done" /\ req[p].appends = 1
        /\ req[p].update.voice = "file" /\ req[p].update.audio = "file"
(***************************************************************************)
(* Statistics                                                              *)
(***************************************************************************)
StatsReturned(p) == ret[p].op = "stats" /\ ret[p].kind = "return"

\* the user ids of the appends
UsersOf(as) == {as[i].input.user_id : i \in 1..Len(as)}

\* C11: get_storage_stats() that returns after N >= 1 completed appends by
\* U distinct users, with nothing else writing the log, reports
\* total_transcriptions = N, unique_users = U as an integer (the set turned
\* into its size) and file_exists = true.
StatsCountAppends ==
    \A p \in Procs :
        (StatsReturned(p) /\ ret[p].napp >= 1) =>
            /\ ret[p].stats.total_transcriptions = ret[p].napp
            /\ ~ret[p].stats.users_is_set
            /\ ret[p].stats.unique_users =
                   Cardinality(UsersOf(AppendedBefore(ret[p])))
            /\ ret[p].stats.file_exists

\* C11 witness: statistics over several records, fewer users than records
StatsOverRepeatedUserSeen ==
    \E p \in Procs :
        /\ StatsReturned(p) /\ ret[p].napp = 2
        /\ ret[p].stats.total_transcriptions = 2
        /\ ret[p].stats.unique_users = 1


\* C12: while the log file does not exist, every get_transcriptions call
\* has returned the empty list, every get_storage_stats call has returned
\* the all-zero statistics (unique_users the integer 0) with file_exists
\* false, every backup_transcriptions call has returned false and made no
\* destination file, and none of them has raised StorageError.
AbsentLogIsValid ==
    ~fs[LogPath].exists =>
        \A p \in Procs :
            /\ ret[p].op \in {"list", "stats", "backup"} =>
                   ret[p].kind = "return"
            /\ ret[p].op = "list" => ret[p].list = <<>>
            /\ ret[p].op = "stats" => ret[p].stats = NoStats
            /\ ret[p].op = "backup" =>
                   (~ret[p].flag /\ ~fs[BackupPath].exists)

\* C13: on a log in which a line is not a well-formed record (blank,
\* truncated JSON, or JSON that is not an object), get_transcriptions and
\* get_storage_stats that have opened the file do not raise StorageError
\* while reading its lines; get_transcriptions without limit returns
\* exactly the valid records (of the user asked for) in file order and
\* get_storage_stats counts exactly the valid records.
BadLinesSkipped ==
    [][\A p \in Procs :
          /\ pc[p] = "read" => ret'[p].kind # "StorageError"
          /\ (ListReturned(p)' /\ ret'[p].limit = NoneV) =>
                 ret'[p].list = Listed(Matching(appended, ret'[p].user_id))
          /\ StatsReturned(p)' =>
                 /\ ret'[p].stats.total_transcriptions = Len(appended)
                 /\ ret'[p].stats.unique_users =
                        Cardinality(UsersOf(appended))]_vars

\* C17: the statistics one get_storage_stats() call returns describe one
\* state of the log: file_size_bytes is the size in bytes of exactly the
\* lines it counted, which are the whole lines of the appends completed
\* by then, never of fewer or more records or of a half-written line.
StatsAreSnapshot ==
    \A p \in Procs :
        (StatsReturned(p) /\ ret[p].stats.file_exists) =>
            /\ ret[p].stats.total_transcriptions = ret[p].napp
            /\ ret[p].stats.file_size_bytes =
                   Len(LinesOf(AppendedBefore(ret[p])))

(***************************************************************************)
(* Backup                                                                  *)
(***************************************************************************)
\* C14: when backup_transcriptions(dest) returns true, with saves running
\* concurrently, the file at dest is byte for byte the log as it is then:
\* the whole lines of the completed appends, no torn record; and the
\* source log still holds those lines, unchanged by the backup.
BackupIsSnapshot ==
    [][\A p \in Procs :
          (call[p].op = "backup" /\ ret'[p].kind = "return") =>
              /\ ret'[p].flag
              /\ fs'[call[p].dest].exists
              /\ fs'[call[p].dest].data = LinesOf(appended')
              /\ fs'[LogPath].data = LinesOf(appended')]_vars

(***************************************************************************)
(* The lock and the network                                                *)
(***************************************************************************)
\* the request holds the lock or is queued for it
AtLock(p) == lock = p \/ \E i \in 1..Len(waiters) : waiters[i] = p

\* C15: a webhook request that is downloading audio, calling the
\* speech-to-text API or sending a chat message neither holds the log lock
\* nor waits for it; a request is at the lock only inside save_transcription,
\* after the transcription text is there and before any reply is sent.
LockNotAcrossNetwork ==
    \A p \in Procs :
        /\ req[p].stage \in {"download", "transcribe", "send"} => ~AtLock(p)
        /\ AtLock(p) =>
               /\ req[p].stage = "save"
               /\ req[p].stt = "ok" /\ req[p].transcription \in Texts
               /\ req[p].downloads = 1 /\ req[p].sends = 0

\* C15 witness: a request sends its reply after its append while another
\* request holds the lock
NetworkBesideLockSeen ==
    \E p, q \in Procs :
        /\ req[p].stage = "send" /\ req[p].appends = 1
        /\ lock = q /\ req[q].stage = "save"

(***************************************************************************)
(* Termination                                                             *)
(***************************************************************************)
NothingInProgress == \A p \in Procs : pc[p] = "idle"

\* C16: under fair scheduling every call of save_transcription,
\* get_transcriptions, get_storage_stats and backup_transcriptions that has
\* started ends, by returning or by raising StorageError; and whenever no
\* call is in progress the lock is free and nobody is queued for it.
EveryCallEnds ==
    /\ [](NothingInProgress => (lock = 0 /\ waiters = <<>>))
    /\ \A p \in Procs : (pc[p] # "idle") ~> (pc[p] = "idle")

\* C16 witness: a call has failed with StorageError and the call that
\* waited for the lock behind it has the lock
LockTakenAfterFailureSeen ==
    \E p, q \in Procs :
        /\ ret[p].kind = "StorageError" /\ pc[p] = "idle"
        /\ lock = q /\ q # p /\ call[q].op # "none"

(***************************************************************************)
(* Timestamps                                                              *)
(***************************************************************************)
\* the records on the whole lines of the file from data[pos] on, in file
\* order
RECURSIVE RecordsFrom(_, _)
RecordsFrom(data, pos) ==
    IF pos > Len(data) THEN <<>>
    ELSE Only({ Only({ (IF r.ok /\ r.isdict THEN <<r.d>> ELSE <<>>)
                          \o RecordsFrom(data, pos + Len(raw))
                       : r \in {Loads(Strip(raw))} })
                : raw \in {ReadLine(data, pos)} })

\* the clock reading a record's timestamp was formatted from
ClockReading(d) == ParseDigits(DictGet(d, "timestamp").s, 1, 0).v.n

\* C18: whatever the interleaving of concurrent save_transcription calls,
\* the timestamps of the records in the log file are non-decreasing in
\* file order.
TimestampsInFileOrder ==
    LET rs == RecordsFrom(fs[LogPath].data, 1) IN
    \A i, j \in 1..Len(rs) :
        i < j => ClockReading(rs[i]) <= ClockReading(rs[j])

\* C18 witness: the file holds records of different timestamps written by
\* saves that were queued for the lock together
QueuedSavesWrittenSeen ==
    LET rs == RecordsFrom(fs[LogPath].data, 1) IN
    /\ Len(rs) = 2 /\ ClockReading(rs[1]) < ClockReading(rs[2])
    /\ lock # 0 /\ call[lock].op = "save" /\ pc[lock] = "write"
    /\ ClockReading(rs[2]) < ClockReading(call[lock].record)

(***************************************************************************)
(* What the webhook reports                                                *)
(***************************************************************************)
\* C19: for every authenticated voice or audio request handle_webhook
\* answers status ok with "... transcription completed", having sent the
\* text as a transcription, only if the speech-to-text call succeeded and
\* save_transcription appended the record; if the download, the
\* transcription or the append failed, the status is error and the text
\* of the failure was not sent as the transcription.
CompletedOnlyWhenSaved ==
    \A p \in Procs :
        (req[p].stage = "done" /\ req[p].auth = "ok"
            /\ req[p].kind \in {"voice", "audio"}) =>
            /\ (req[p].response.status = "ok"
                 /\ req[p].response.message = CompletedMessage(req[p].kind)) =>
                    (req[p].stt = "ok" /\ req[p].appends = 1
                     /\ req[p].result = "text")
            /\ req[p].result \in {"failure", "error"} =>
                    (req[p].response.status = "error"
                     /\ req[p].sent_as # "transcription")

====
